---------------------------- MODULE Spec2Model ----------------------------
(***************************************************************************)
(* Floating launcher: the Configuration Store (src/src/config_manager.py)  *)
(* and the Launch Gate (src/src/app_launcher.py) as state machines.        *)
(*                                                                         *)
(* Configuration Store state: the live configuration file, the backup      *)
(* directory, the wall clock in seconds (backup file names carry a         *)
(* second-resolution timestamp) and a finer write clock (file              *)
(* modification times).  Every public method is one action.                *)
(***************************************************************************)
EXTENDS Integers, Sequences, FiniteSets, TLC

VARIABLES
    live,       \* the live configuration file: [kind, doc, meta, mtime]
    backups,    \* backup directory: timestamp (seconds) -> file, NoFile when absent
    created,    \* history: the timestamps at which backup_config wrote a backup
    sec,        \* wall clock, seconds: datetime.now() as backup_config formats it
    clock,      \* modification-time clock: advances with every write of the live file
    env,        \* number of external modifications of the live file so far
    saved,      \* history: argument of the last successful save_config, if only
                \* load_config calls followed it
    run,        \* history: number of successive successful save_config calls
    res,        \* the last operation: [op, io, arg, ret, raised, pre]
    osname,     \* os.name of the platform the launcher runs on: "nt" or "posix"
    spawned,    \* number of subprocess.Popen calls made so far
    launch,     \* the last launch_application call: its path, the steps it
                \* evaluated in order, and the LaunchResult it returned
    procs,      \* the OS process table: pid -> process, NoProc when there is none
    probe,      \* the last call of another Launch Gate method: [op, path, pid, ret, raised]
    check,      \* the last validate_config call: [arg, ok, errors]
    writer,     \* concurrent save_config calls: thread -> [pc, arg, ret]
    disk,       \* the live file those calls share, as the blocks of text it holds
    snaps,      \* the backup copies those calls made
    recovery_handlers,  \* ErrorRecovery._recovery_handlers: category -> number registered
    recovery_attempts,  \* ErrorRecovery._recovery_attempts: error key -> count
    recov       \* the last ErrorRecovery call: [op, key, cat, before, invoked, ret]

cfgvars == <<live, backups, created, sec, clock, env, saved, run, res>>
lvars == <<osname, spawned, launch, procs, probe>>
vvars == <<check>>
rvars == <<writer, disk, snaps>>
evars == <<recovery_handlers, recovery_attempts, recov>>
xvars == <<rvars, evars>>
vars == <<cfgvars, lvars, vvars, xvars>>

-----------------------------------------------------------------------------
(* Bounds of the model *)

MaxSec == 1
MaxClock == 3
MaxEnv == 1
RotSec == 5
RotClock == 2
RunSec == 6
RunClock == 7
MaxSpawn == 1
MaxPid == 2
MaxProc == 2
MaxHandlers == 2
MaxRetry == 2

(* Program constants *)

max_backups == 5
PosMin == -32768
PosMax == 32767
SizeMin == 16
SizeMax == 128
max_recovery_attempts == 3

-----------------------------------------------------------------------------
(* Python values of a configuration mapping.  A scalar is [t, s, n]; a     *)
(* nested mapping also carries its two members x and y.                    *)

Sc(t, s, n) == [t |-> t, s |-> s, n |-> n]
AbsentC == Sc("absent", "", 0)
IntC(n) == Sc("int", "", n)
BoolC(b) == Sc("bool", "", IF b THEN 1 ELSE 0)
StrC(s) == Sc("str", s, 0)
ObjC == Sc("object", "", 0)      \* a value json cannot serialise

Val(t, s, n) == Sc(t, s, n)
Absent == Val("absent", "", 0)
IntV(n) == Val("int", "", n)
BoolV(b) == Val("bool", "", IF b THEN 1 ELSE 0)
StrV(s) == Val("str", s, 0)
DictV(x, y) == [t |-> "dict", s |-> "", n |-> 0, x |-> x, y |-> y]

Keys == {"app_path", "icon_position", "icon_fixed", "auto_start", "icon_size", "version"}

EmptyCfg == [k \in Keys |-> Absent]

MkCfg(p, pos, f, a, z, v) ==
    [app_path |-> p, icon_position |-> pos, icon_fixed |-> f,
     auto_start |-> a, icon_size |-> z, version |-> v]

DefaultIconSize48 ==
    MkCfg(StrV(""), DictV(IntC(100), IntC(100)), BoolV(FALSE), BoolV(FALSE),
          IntV(48), StrV("1.0.0"))

(* get_default_config *)
get_default_config ==
    MkCfg(StrV(""), DictV(IntC(100), IntC(100)), BoolV(FALSE), BoolV(FALSE),
          IntV(32), StrV("1.0.0"))

(* isinstance: bool is a subclass of int in Python *)
IsStr(v) == v.t = "str"
IsBool(v) == v.t = "bool"
IsInt(v) == v.t \in {"int", "bool"}
IsDict(v) == v.t = "dict"

IsInstance(v, ty) ==
    CASE ty = "str" -> IsStr(v)
      [] ty = "bool" -> IsBool(v)
      [] ty = "int" -> IsInt(v)
      [] ty = "dict" -> IsDict(v)
      [] OTHER -> FALSE

type_checks ==
    [app_path |-> "str", icon_position |-> "dict", icon_fixed |-> "bool",
     auto_start |-> "bool", icon_size |-> "int", version |-> "str"]

(* An argument of save_config: a dict, or some other Python object *)
DictArg(c) == [py |-> "dict", c |-> c]
ListArg == [py |-> "list", c |-> EmptyCfg]
NoArg == [py |-> "none", c |-> EmptyCfg]

BasicValidationStrict(arg) ==
    /\ arg.py = "dict"
    /\ \A k \in Keys :
         arg.c[k].t # "absent" => IsInstance(arg.c[k], type_checks[k])
    /\ arg.c.icon_size.t = "int"
          => (SizeMin <= arg.c.icon_size.n /\ arg.c.icon_size.n <= SizeMax)
    /\ (arg.c.icon_position.t = "dict" /\ arg.c.icon_position.x.t = "int")
          => (PosMin <= arg.c.icon_position.x.n /\ arg.c.icon_position.x.n <= PosMax)

basic_validation(arg) ==
    /\ arg.py = "dict"
    /\ \A k \in Keys :
         arg.c[k].t # "absent" => IsInstance(arg.c[k], type_checks[k])

CoordOk(c) == c.t # "absent" /\ IsInt(c) /\ PosMin <= c.n /\ c.n <= PosMax

(* an entry of the errors list: the key the message names and what is wrong *)
Err(key, kind) == [key |-> key, kind |-> kind]

(* the errors of one coordinate of icon_position *)
CoordErrors(name, c) ==
    IF c.t = "absent" THEN {Err(name, "missing")}
    ELSE IF ~IsInt(c) THEN {Err(name, "type")}
    ELSE IF ~(PosMin <= c.n /\ c.n <= PosMax) THEN {Err(name, "range")}
    ELSE {}

(* validate_config: the errors list, as a set *)
validate_errors(c) ==
    LET missing == {k \in Keys : c[k].t = "absent"}
    IN IF missing # {} THEN {Err(k, "missing") : k \in missing}
       ELSE (IF ~IsStr(c.app_path) THEN {Err("app_path", "type")} ELSE {})
            \cup (IF ~IsDict(c.icon_position) THEN {Err("icon_position", "type")}
                  ELSE CoordErrors("icon_position.x", c.icon_position.x)
                       \cup CoordErrors("icon_position.y", c.icon_position.y))
            \cup (IF ~IsBool(c.icon_fixed) THEN {Err("icon_fixed", "type")} ELSE {})
            \cup (IF ~IsBool(c.auto_start) THEN {Err("auto_start", "type")} ELSE {})
            \cup (IF ~IsInt(c.icon_size) THEN {Err("icon_size", "type")}
                  ELSE IF ~(SizeMin <= c.icon_size.n /\ c.icon_size.n <= SizeMax)
                  THEN {Err("icon_size", "range")}
                  ELSE {})
            \cup (IF ~IsStr(c.version) THEN {Err("version", "type")} ELSE {})

(* validate_config: the flag returned, len(errors) == 0 *)
validate_config(c) == validate_errors(c) = {}

-----------------------------------------------------------------------------
(* json.dump / json.load on the values above.  A JSON value is [j, s, n]   *)
(* (string, number, true, false) or an object with members x and y.        *)

JEncCMut(c) ==
    CASE c.t = "str" -> Sc("string", c.s, 0)
      [] c.t = "int" -> Sc("number", "", c.n)
      [] c.t = "bool" -> Sc("number", "", c.n)
      [] OTHER -> Sc("missing", "", 0)

JEncC(c) ==
    CASE c.t = "str" -> Sc("string", c.s, 0)
      [] c.t = "int" -> Sc("number", "", c.n)
      [] c.t = "bool" -> Sc(IF c.n = 1 THEN "true" ELSE "false", "", 0)
      [] OTHER -> Sc("missing", "", 0)

JDecC(j) ==
    CASE j.t = "string" -> StrC(j.s)
      [] j.t = "number" -> IntC(j.n)
      [] j.t = "true" -> BoolC(TRUE)
      [] j.t = "false" -> BoolC(FALSE)
      [] OTHER -> AbsentC

JEnc(v) ==
    IF v.t = "dict"
    THEN [t |-> "object", s |-> "", n |-> 0, x |-> JEncC(v.x), y |-> JEncC(v.y)]
    ELSE JEncC(v)

JDec(j) ==
    IF j.t = "object"
    THEN DictV(JDecC(j.x), JDecC(j.y))
    ELSE JDecC(j)

Serialisable(c) ==
    \A k \in Keys :
        /\ c[k].t # "object"
        /\ c[k].t = "dict" => (c[k].x.t # "object" /\ c[k].y.t # "object")

NoMeta == [last_modified |-> -1, backup_count |-> -1]

(* Files.  kind: "none" (no such file), "object" (a JSON object: doc and   *)
(* the _metadata member), "nonobj" (well-formed JSON, not an object),      *)
(* "malformed" (not JSON), "partial" (a write that stopped half way: not   *)
(* JSON either), "undecodable" (bytes that are not UTF-8).                 *)

File(kind, doc, meta, mtime) == [kind |-> kind, doc |-> doc, meta |-> meta, mtime |-> mtime]
Raw(kind, mtime) == [kind |-> kind, mtime |-> mtime]     \* a file that holds no JSON object
NoFile == Raw("none", 0)

Exists(f) == f.kind # "none"

(* json.load(f): what reading a file gives *)
Parse(f) ==
    CASE f.kind = "object" -> "dict"
      [] f.kind = "nonobj" -> "list"
      [] f.kind = "undecodable" -> "UnicodeDecodeError"
      [] OTHER -> "JSONDecodeError"

(* the mapping load_config returns for an object file: every member but _metadata *)
StripMetadata(f) == [k \in Keys |-> JDec(f.doc[k])]

Content(f) ==
    IF f.kind = "object" THEN [kind |-> f.kind, doc |-> f.doc, meta |-> f.meta]
    ELSE [kind |-> f.kind]


-----------------------------------------------------------------------------
(* The file system the store works on, threaded through the methods.       *)

Names == 0 .. (MaxSec + RotSec + RunSec)   \* backup timestamps: config_backup_<timestamp>.json

FS(l, b, cr, c) == [live |-> l, backups |-> b, created |-> cr, clock |-> c]

BackupFiles(bk) == {n \in DOMAIN bk : Exists(bk[n])}

(* _get_backup_count *)
get_backup_count(bk) == Cardinality(BackupFiles(bk))

(* backup_files.sort(): tuples (mtime, path), and paths order as their timestamps *)
SortsBefore(bk, a, b) ==
    \/ bk[a].mtime < bk[b].mtime
    \/ bk[a].mtime = bk[b].mtime /\ a < b

(* number of backup files that sort after n *)
NewerCount(bk, n) == Cardinality({m \in BackupFiles(bk) : SortsBefore(bk, n, m)})

CleanupNever(bk) == bk

(* _cleanup_old_backups: os.remove of backup_files[:-max_backups] *)
cleanup_old_backups(bk) ==
    IF get_backup_count(bk) > max_backups
    THEN [n \in DOMAIN bk |->
            IF Exists(bk[n]) /\ NewerCount(bk, n) >= max_backups THEN NoFile ELSE bk[n]]
    ELSE bk

(* backup_config: [fs, path]; path = -1 stands for None.  shutil.copy2     *)
(* copies the content and the modification time of the live file.          *)
backup_config(F, now, io) ==
    IF ~Exists(F.live) \/ io = "read_denied"
    THEN [fs |-> F, path |-> -1]
    ELSE LET copied == [F.backups EXCEPT ![now] = F.live]
         IN [fs |-> FS(F.live, cleanup_old_backups(copied), F.created \cup {now}, F.clock),
             path |-> now]

DumpNoMetadata(c, meta, mtime) == File("object", [k \in Keys |-> JEnc(c[k])], NoMeta, mtime)

(* json.dump(config_with_metadata, f, indent=2, ensure_ascii=False) *)
Dump(c, meta, mtime) == File("object", [k \in Keys |-> JEnc(c[k])], meta, mtime)

(* save_config after the validation: the backup of the existing file, the *)
(* metadata and the write                                                  *)
write_config(F, now, arg, io) ==
         LET B == IF Exists(F.live) THEN backup_config(F, now, io).fs ELSE F
             meta == [last_modified |-> B.clock, backup_count |-> get_backup_count(B.backups)]
             stopped == [B EXCEPT !.live = Raw("partial", B.clock), !.clock = B.clock + 1]
         IN CASE io = "write_denied" ->
                    \* open(..., 'w') raises PermissionError
                    [fs |-> B, ok |-> FALSE, raised |-> "none"]
              [] io # "write_denied" /\ ~Serialisable(arg.c) ->
                    \* json.dump raises TypeError with the file open and truncated
                    [fs |-> stopped, ok |-> FALSE, raised |-> "TypeError"]
              [] io = "write_interrupted" /\ Serialisable(arg.c) ->
                    \* an OSError while writing
                    [fs |-> stopped, ok |-> FALSE, raised |-> "none"]
              [] OTHER ->
                    [fs |-> [B EXCEPT !.live = Dump(arg.c, meta, B.clock),
                                      !.clock = B.clock + 1],
                     ok |-> TRUE, raised |-> "none"]

SaveBackupFirst(F, now, arg, io) ==
    IF ~basic_validation(arg)
    THEN [fs |-> IF Exists(F.live) THEN backup_config(F, now, io).fs ELSE F,
          ok |-> FALSE, raised |-> "none"]
    ELSE write_config(F, now, arg, io)

(* save_config: [fs, ok, raised] *)
save_config(F, now, arg, io) ==
    IF ~basic_validation(arg)
    THEN [fs |-> F, ok |-> FALSE, raised |-> "none"]
    ELSE write_config(F, now, arg, io)

(* restore_from_backup: [fs, ok, raised]; the backup is parsed, then copied *)
restore_from_backup(F, n, io) ==
    IF ~(n \in DOMAIN F.backups /\ Exists(F.backups[n]))
    THEN [fs |-> F, ok |-> FALSE, raised |-> "none"]
    ELSE LET p == Parse(F.backups[n])
         IN CASE p = "UnicodeDecodeError" ->
                    [fs |-> F, ok |-> FALSE, raised |-> "UnicodeDecodeError"]
              [] p = "JSONDecodeError" ->
                    [fs |-> F, ok |-> FALSE, raised |-> "none"]
              [] p \in {"dict", "list"} /\ io = "write_denied" ->
                    [fs |-> F, ok |-> FALSE, raised |-> "none"]
              [] p \in {"dict", "list"} /\ io = "write_interrupted" ->
                    [fs |-> [F EXCEPT !.live = Raw("partial", F.clock),
                                      !.clock = F.clock + 1],
                     ok |-> FALSE, raised |-> "none"]
              [] OTHER ->
                    [fs |-> [F EXCEPT !.live = F.backups[n]], ok |-> TRUE, raised |-> "none"]

(* the backup files, latest (mtime, path) first: backup_files.sort(reverse=True) *)
RECURSIVE SortedDesc(_, _)
SortedDesc(bk, S) ==
    IF S = {} THEN <<>>
    ELSE LET top == CHOOSE n \in S : \A m \in S \ {n} : SortsBefore(bk, m, n)
         IN <<top>> \o SortedDesc(bk, S \ {top})

(* the loop of _try_restore_from_latest_backup over the sorted list *)
RECURSIVE TryEach(_, _, _)
TryEach(F, order, io) ==
    IF order = <<>>
    THEN [fs |-> F, ok |-> FALSE, raised |-> "none"]
    ELSE LET r == restore_from_backup(F, Head(order), io)
         IN IF r.ok \/ r.raised # "none" THEN r ELSE TryEach(r.fs, Tail(order), io)

RestoreOrder(bk) == SortedDesc(bk, BackupFiles(bk))

(* _try_restore_from_latest_backup *)
try_restore_from_latest_backup(F, io) == TryEach(F, RestoreOrder(F.backups), io)

NoMap == EmptyCfg

(* load_config once the live file is open: json.load, and the recovery    *)
(* from the backups when it is not JSON.  depth counts the recursive       *)
(* calls "return self.load_config()" made so far; the interpreter gives up *)
(* with a RecursionError when they do not end.                             *)
RECURSIVE read_config(_, _, _, _)
read_config(F, now, io, depth) ==
         LET p == Parse(F.live)
         IN CASE p = "dict" ->
                    [fs |-> F, map |-> StripMetadata(F.live), raised |-> "none",
                     retries |-> depth]
              [] p = "list" ->
                    [fs |-> F, map |-> NoMap, raised |-> "AttributeError", retries |-> depth]
              [] p = "UnicodeDecodeError" ->
                    [fs |-> F, map |-> NoMap, raised |-> "UnicodeDecodeError",
                     retries |-> depth]
              [] OTHER ->
                    LET r == try_restore_from_latest_backup(F, io)
                    IN IF r.raised # "none"
                       THEN [fs |-> r.fs, map |-> NoMap, raised |-> r.raised,
                             retries |-> depth]
                       ELSE IF r.ok
                       THEN \* return self.load_config(): the restored file exists
                            IF depth >= MaxRetry
                            THEN [fs |-> r.fs, map |-> NoMap, raised |-> "RecursionError",
                                  retries |-> depth]
                            ELSE read_config(r.fs, now, io, depth + 1)
                       ELSE [fs |-> save_config(r.fs, now, DictArg(get_default_config), io).fs,
                             map |-> get_default_config, raised |-> "none",
                             retries |-> depth]

LoadPersistsOnError(F, now, io) ==
    IF ~Exists(F.live) \/ io = "read_denied"
    THEN [fs |-> save_config(F, now, DictArg(get_default_config), io).fs,
          map |-> get_default_config, raised |-> "none", retries |-> 0]
    ELSE read_config(F, now, io, 0)

(* load_config: [fs, map, raised]; map is the mapping returned *)
load_config(F, now, io) ==
    IF ~Exists(F.live)
    THEN [fs |-> save_config(F, now, DictArg(get_default_config), io).fs,
          map |-> get_default_config, raised |-> "none", retries |-> 0]
    ELSE IF io = "read_denied"
    THEN [fs |-> F, map |-> get_default_config, raised |-> "none", retries |-> 0]
    ELSE read_config(F, now, io, 0)


-----------------------------------------------------------------------------
(* Inputs *)

cfgA ==
    MkCfg(StrV("C:\\Test\\app.exe"), DictV(IntC(PosMin), IntC(PosMax)), BoolV(TRUE),
          BoolV(FALSE), IntV(64), StrV("1.0.0"))

(* right primitive types, a coordinate out of range *)
cfgRange ==
    MkCfg(StrV(""), DictV(IntC(9999999), IntC(5)), BoolV(FALSE), BoolV(FALSE),
          IntV(32), StrV("1.0.0"))

(* required keys missing *)
cfgPartial == [EmptyCfg EXCEPT !.app_path = StrV("test.exe")]

(* a required key of the wrong primitive type *)
cfgBadType == [get_default_config EXCEPT !.icon_size = StrV("big")]

(* right primitive types, icon_size out of range *)
cfgSize == [get_default_config EXCEPT !.icon_size = IntV(200)]

(* icon_size given as a boolean: isinstance(True, int) holds *)
cfgBoolSize == [get_default_config EXCEPT !.icon_size = BoolV(TRUE)]

(* one required key of the wrong primitive type, for each key *)
WrongValue(k) ==
    CASE k = "app_path" -> IntV(12345)
      [] k = "icon_position" -> StrV("invalid")
      [] k = "icon_fixed" -> IntV(1)
      [] k = "auto_start" -> StrV("yes")
      [] k = "icon_size" -> StrV("32")
      [] OTHER -> IntV(1)

RejectInputs ==
    {ListArg, DictArg([EmptyCfg EXCEPT !.icon_size = StrV("32")])}
        \cup {DictArg([cfgA EXCEPT ![k] = WrongValue(k)]) : k \in Keys}

(* arguments the basic validation lets through *)
AcceptInputs == {DictArg(cfgPartial), DictArg(cfgBoolSize)}

RejectIOs == {"ok", "write_interrupted"}

(* a value json.dump cannot serialise, inside icon_position *)
cfgUnser == [get_default_config EXCEPT !.icon_position = DictV(ObjC, IntC(5))]

SaveInputs ==
    {DictArg(cfgA), DictArg(cfgRange), DictArg(cfgPartial), DictArg(cfgBadType),
     DictArg(cfgUnser), ListArg}


IOs == {"ok", "read_denied", "write_denied", "write_interrupted"}

CorruptKinds == {"malformed", "nonobj", "undecodable"}

-----------------------------------------------------------------------------
(* Results *)

RetMap(m) == [k |-> "map", map |-> m, b |-> FALSE, n |-> 0]
RetBool(b) == [k |-> "bool", map |-> NoMap, b |-> b, n |-> 0]
RetPath(n) == [k |-> IF n = -1 THEN "none" ELSE "path", map |-> NoMap, b |-> FALSE, n |-> n]
NoRet == [k |-> "nothing", map |-> NoMap, b |-> FALSE, n |-> 0]

Pre == [live |-> live.kind, nb |-> get_backup_count(backups)]

Result(op, io, arg, ret, raised) ==
    [op |-> op, io |-> io, arg |-> arg, ret |-> IF raised = "none" THEN ret ELSE NoRet,
     raised |-> raised, pre |-> Pre, retries |-> 0]

Now == FS(live, backups, created, clock)

Install(F) ==
    /\ live' = F.live
    /\ backups' = F.backups
    /\ created' = F.created
    /\ clock' = F.clock

RunCap == max_backups + 1

-----------------------------------------------------------------------------
(* Actions: one per public method, plus time and the outside world.        *)

InitStore ==
    /\ live = NoFile
    /\ backups = [n \in Names |-> NoFile]
    /\ created = {}
    /\ sec = 0
    /\ clock = 0
    /\ env = 0
    /\ saved = NoArg
    /\ run = 0
    /\ res = [op |-> "init", io |-> "ok", arg |-> NoArg, ret |-> NoRet, raised |-> "none",
              pre |-> [live |-> "none", nb |-> 0], retries |-> 0]

(* a second passes *)
Tick(maxSec) ==
    /\ sec < maxSec
    /\ sec' = sec + 1
    /\ UNCHANGED <<live, backups, created, clock, env, saved, run, res>>
    /\ UNCHANGED lvars
    /\ UNCHANGED vvars
    /\ UNCHANGED xvars

SaveConfig(arg, io, maxClock) ==
    /\ LET r == save_config(Now, sec, arg, io)
       IN /\ r.fs.clock <= maxClock
          /\ Install(r.fs)
          /\ res' = Result("save_config", io, arg, RetBool(r.ok), r.raised)
          /\ saved' = IF r.ok THEN arg ELSE NoArg
          /\ run' = IF r.ok THEN (IF run < RunCap THEN run + 1 ELSE run) ELSE 0
    /\ UNCHANGED <<sec, env>>
    /\ UNCHANGED lvars
    /\ UNCHANGED vvars
    /\ UNCHANGED xvars

LoadConfig(io, maxClock) ==
    /\ LET r == load_config(Now, sec, io)
       IN /\ r.fs.clock <= maxClock
          /\ Install(r.fs)
          /\ res' = [Result("load_config", io, NoArg, RetMap(r.map), r.raised)
                        EXCEPT !.retries = r.retries]
          /\ saved' = saved
          /\ run' = 0
    /\ UNCHANGED <<sec, env>>
    /\ UNCHANGED lvars
    /\ UNCHANGED vvars
    /\ UNCHANGED xvars

BackupConfig(io) ==
    /\ LET r == backup_config(Now, sec, io)
       IN /\ Install(r.fs)
          /\ res' = Result("backup_config", io, NoArg, RetPath(r.path), "none")
    /\ saved' = NoArg
    /\ run' = 0
    /\ UNCHANGED <<sec, env>>
    /\ UNCHANGED lvars
    /\ UNCHANGED vvars
    /\ UNCHANGED xvars

RestoreFromBackup(n, io, maxClock) ==
    /\ LET r == restore_from_backup(Now, n, io)
       IN /\ r.fs.clock <= maxClock
          /\ Install(r.fs)
          /\ res' = Result("restore_from_backup", io, NoArg, RetBool(r.ok), r.raised)
    /\ saved' = NoArg
    /\ run' = 0
    /\ UNCHANGED <<sec, env>>
    /\ UNCHANGED lvars
    /\ UNCHANGED vvars
    /\ UNCHANGED xvars

(* reset_to_default *)
ResetToDefault(io, maxClock) ==
    /\ LET r == save_config(Now, sec, DictArg(get_default_config), io)
       IN /\ r.fs.clock <= maxClock
          /\ Install(r.fs)
          /\ res' = Result("reset_to_default", io, NoArg, RetBool(r.ok), r.raised)
          /\ saved' = IF r.ok THEN DictArg(get_default_config) ELSE NoArg
    /\ run' = 0
    /\ UNCHANGED <<sec, env>>
    /\ UNCHANGED lvars
    /\ UNCHANGED vvars
    /\ UNCHANGED xvars

(* the live file is overwritten from outside the program *)
Corrupt(kind, maxClock) ==
    /\ env < MaxEnv
    /\ clock < maxClock
    /\ Exists(live)
    /\ live' = Raw(kind, clock)
    /\ clock' = clock + 1
    /\ env' = env + 1
    /\ saved' = NoArg
    /\ run' = 0
    /\ res' = Result("external", "ok", NoArg, NoRet, "none")
    /\ UNCHANGED <<backups, created, sec>>
    /\ UNCHANGED lvars
    /\ UNCHANGED vvars
    /\ UNCHANGED xvars

(* the live file is deleted from outside the program *)
Delete ==
    /\ env < MaxEnv
    /\ Exists(live)
    /\ live' = NoFile
    /\ env' = env + 1
    /\ saved' = NoArg
    /\ run' = 0
    /\ res' = Result("external", "ok", NoArg, NoRet, "none")
    /\ UNCHANGED <<backups, created, sec, clock>>
    /\ UNCHANGED lvars
    /\ UNCHANGED vvars
    /\ UNCHANGED xvars

(* validate_config, called by the settings dialog on the mapping it built *)
NoCheck == [arg |-> EmptyCfg, called |-> FALSE, ok |-> FALSE, errors |-> {}]

ValidateConfig(c) ==
    /\ check' = [arg |-> c, called |-> TRUE, ok |-> validate_config(c),
                 errors |-> validate_errors(c)]
    /\ UNCHANGED cfgvars
    /\ UNCHANGED lvars
    /\ UNCHANGED xvars

(* Inputs of validate_config: every combination of these values *)
PathValues == {StrV(""), IntV(12345)}
CoordValues == {IntC(100), IntC(PosMin), IntC(PosMax), IntC(PosMin - 1), IntC(PosMax + 1),
                BoolC(TRUE), StrC("100"), AbsentC}
PositionValues == {DictV(x, y) : x \in CoordValues, y \in {IntC(200), IntC(9999999)}}
                      \cup {DictV(IntC(100), y) : y \in CoordValues}
                      \cup {StrV("invalid"), Absent}
FlagValues == {BoolV(TRUE), IntV(1)}
SizeValues == {IntV(SizeMin), IntV(SizeMax), IntV(SizeMin - 1), IntV(SizeMax + 1),
               BoolV(TRUE), StrV("32")}
VersionValues == {StrV("1.0.0"), IntV(1)}

ValidateInputs ==
    {MkCfg(p, pos, f, BoolV(FALSE), z, v) :
        p \in PathValues, pos \in PositionValues, f \in FlagValues,
        z \in SizeValues, v \in VersionValues}
      \cup {MkCfg(StrV(""), DictV(IntC(1), IntC(2)), BoolV(TRUE), a, IntV(32), StrV("1.0.0")) :
               a \in FlagValues \cup {Absent}}

-----------------------------------------------------------------------------
(* save_config called from two threads at once.  The method holds no lock, *)
(* so its steps interleave: the validation, the backup of the existing     *)
(* file, open(path, 'w') which truncates the file, and the end of the with *)
(* block, which flushes the buffered text to the file at the offset of the *)
(* thread's own descriptor.                                                *)

Writers == {1, 2}

(* the number of blocks of the text json.dump produces: a mapping with a   *)
(* longer app_path has a longer text                                       *)
TextLen(c) == IF c.app_path.t = "str" /\ c.app_path.s # "" THEN 3 ELSE 2

(* the text json.dump produces for a mapping, block by block *)
Text(c) == [i \in 1 .. TextLen(c) |-> [of |-> c, at |-> i]]

OnDisk(text) == [exists |-> TRUE, text |-> text]
NoDisk == [exists |-> FALSE, text |-> <<>>]

(* write(fd, text) at offset 0 of a file that holds old: the blocks of old *)
(* beyond the end of text stay                                             *)
WriteAtStart(old, text) ==
    [i \in 1 .. (IF Len(old) > Len(text) THEN Len(old) ELSE Len(text)) |->
        IF i <= Len(text) THEN text[i] ELSE old[i]]

Idle == [pc |-> "idle", arg |-> NoArg, ret |-> "none"]

RaceInputs == {DictArg(get_default_config), DictArg(cfgA), ListArg}

InitRace ==
    /\ writer = [t \in Writers |-> Idle]
    /\ disk = NoDisk
    /\ snaps = {}

(* thread t enters save_config: _basic_validation *)
RaceCall(t, arg) ==
    /\ writer[t].pc = "idle"
    /\ writer' = [writer EXCEPT ![t] =
                    IF basic_validation(arg)
                    THEN [pc |-> "validated", arg |-> arg, ret |-> "none"]
                    ELSE [pc |-> "done", arg |-> arg, ret |-> "false"]]
    /\ UNCHANGED <<disk, snaps>>
    /\ UNCHANGED <<cfgvars, lvars, vvars, evars>>

(* if os.path.exists(path): backup_config(), which copies what the file    *)
(* holds at that moment                                                    *)
RaceBackup(t) ==
    /\ writer[t].pc = "validated"
    /\ snaps' = IF disk.exists THEN snaps \cup {disk.text} ELSE snaps
    /\ writer' = [writer EXCEPT ![t].pc = "backed"]
    /\ UNCHANGED disk
    /\ UNCHANGED <<cfgvars, lvars, vvars, evars>>

(* open(path, 'w'): the file is created or truncated *)
RaceOpen(t) ==
    /\ writer[t].pc = "backed"
    /\ disk' = OnDisk(<<>>)
    /\ writer' = [writer EXCEPT ![t].pc = "open"]
    /\ UNCHANGED snaps
    /\ UNCHANGED <<cfgvars, lvars, vvars, evars>>

(* json.dump into the buffer and the end of the with block: the text is    *)
(* written from the start of the file; return True                         *)
RaceClose(t) ==
    /\ writer[t].pc = "open"
    /\ disk' = OnDisk(WriteAtStart(disk.text, Text(writer[t].arg.c)))
    /\ writer' = [writer EXCEPT ![t].pc = "done", ![t].ret = "true"]
    /\ UNCHANGED snaps
    /\ UNCHANGED <<cfgvars, lvars, vvars, evars>>

-----------------------------------------------------------------------------
(* ErrorRecovery (src/src/error_handler.py).  An error key is the text     *)
(* "<category value>:<message>"; texts are sequences of tokens.            *)

Categories == {<<"U", "I">>, <<"C", "O", "N", "F", "I", "G">>}
Messages == {<<"m">>, <<"n">>}

(* error_key = f"{error_info.category.value}:{error_info.message}" *)
ErrorKey(cat, msg) == cat \o <<":">> \o msg

ErrorInfos == {[category |-> <<"C", "O", "N", "F", "I", "G">>, message |-> m] : m \in Messages}
                  \cup {[category |-> <<"U", "I">>, message |-> <<"m">>]}

(* str.startswith *)
KeyStartsWith(k, prefix) ==
    Len(prefix) <= Len(k) /\ \A i \in 1 .. Len(prefix) : k[i] = prefix[i]

(* dict.get(key, 0) and dict[key] = v *)
GetAttempts(d, key) == IF key \in DOMAIN d THEN d[key] ELSE 0
SetAttempts(d, key, v) == [k \in DOMAIN d \cup {key} |-> IF k = key THEN v ELSE d[k]]

(* the handlers invoked, in order: all of them up to the first that        *)
(* returns true; outs[i] is what handler i does when it is invoked         *)
Succeeded(outs) == {i \in 1 .. Len(outs) : outs[i] = "true"}
FirstTrue(outs) == CHOOSE i \in Succeeded(outs) : \A j \in Succeeded(outs) : i <= j

AttemptRecoveryUnlimited(d, info, outs) ==
    LET error_key == ErrorKey(info.category, info.message)
        attempts == GetAttempts(d, error_key)
        counted == SetAttempts(d, error_key, attempts + 1)
    IN IF Succeeded(outs) # {}
       THEN [d |-> SetAttempts(counted, error_key, 0), ret |-> TRUE,
             invoked |-> FirstTrue(outs)]
       ELSE [d |-> counted, ret |-> FALSE, invoked |-> Len(outs)]

(* attempt_recovery: [d, ret, invoked] *)
attempt_recovery(d, info, outs) ==
    LET error_key == ErrorKey(info.category, info.message)
        attempts == GetAttempts(d, error_key)
        counted == SetAttempts(d, error_key, attempts + 1)
    IN IF attempts >= max_recovery_attempts
       THEN [d |-> d, ret |-> FALSE, invoked |-> 0]
       ELSE IF Succeeded(outs) # {}
       THEN [d |-> SetAttempts(counted, error_key, 0), ret |-> TRUE,
             invoked |-> FirstTrue(outs)]
       ELSE [d |-> counted, ret |-> FALSE, invoked |-> Len(outs)]

(* reset_recovery_attempts(category); <<>> stands for no category *)
reset_recovery_attempts(d, category) ==
    IF category # <<>>
    THEN [k \in {j \in DOMAIN d : ~KeyStartsWith(j, category)} |-> d[k]]
    ELSE [k \in {} |-> 0]

HandlerOutcomes == {"true", "false", "raise"}

NoRecov == [op |-> "none", key |-> <<>>, cat |-> <<>>, before |-> 0, invoked |-> 0,
            handlers |-> 0, ret |-> FALSE]

InitRecovery ==
    /\ recovery_handlers = [c \in Categories |-> 0]
    /\ recovery_attempts = [k \in {} |-> 0]
    /\ recov = NoRecov

(* register_handler *)
RegisterHandler(cat) ==
    /\ recovery_handlers[cat] < MaxHandlers
    /\ recovery_handlers' = [recovery_handlers EXCEPT ![cat] = @ + 1]
    /\ UNCHANGED <<recovery_attempts, recov>>
    /\ UNCHANGED <<cfgvars, lvars, vvars, rvars>>

AttemptRecovery(info) ==
    /\ \E outs \in [1 .. recovery_handlers[info.category] -> HandlerOutcomes] :
          LET r == attempt_recovery(recovery_attempts, info, outs)
          IN /\ recovery_attempts' = r.d
             /\ recov' = [op |-> "attempt_recovery",
                          key |-> ErrorKey(info.category, info.message),
                          cat |-> info.category,
                          before |-> GetAttempts(recovery_attempts,
                                                 ErrorKey(info.category, info.message)),
                          invoked |-> r.invoked,
                          handlers |-> recovery_handlers[info.category],
                          ret |-> r.ret]
    /\ UNCHANGED recovery_handlers
    /\ UNCHANGED <<cfgvars, lvars, vvars, rvars>>

ResetRecoveryAttempts(cat) ==
    /\ recovery_attempts' = reset_recovery_attempts(recovery_attempts, cat)
    /\ recov' = [NoRecov EXCEPT !.op = "reset_recovery_attempts", !.cat = cat]
    /\ UNCHANGED recovery_handlers
    /\ UNCHANGED <<cfgvars, lvars, vvars, rvars>>

-----------------------------------------------------------------------------
(* Launch Gate (src/src/app_launcher.py).  A path is a sequence of tokens:  *)
(* single characters, a three-letter extension, or a run of ordinary        *)
(* characters of a stated length.                                           *)

MAX_PATH_LENGTH == 260
VALID_EXTENSIONS == {"exe", "com", "bat", "cmd", "msi", "ps1"}
INVALID_CHARS == {"<", ">", "|", "\"", "*", "?"}

BS == "\\"

TokLen(t) ==
    CASE t \in {"exe", "EXE", "Bat", "txt", "com", "msc", "msi", "ps1"} -> 3
      [] t \in {"Windows", "windows", "regedit", "Regedit", "notepad"} -> 7
      [] t \in {"System32", "system32"} -> 8
      [] t = "run250" -> 250
      [] t = "run253" -> 253
      [] t = "run254" -> 254
      [] OTHER -> 1

RECURSIVE PathLen(_)
PathLen(toks) == IF toks = <<>> THEN 0 ELSE TokLen(Head(toks)) + PathLen(Tail(toks))

(* str.lower() on an extension token *)
Lower(t) ==
    CASE t = "EXE" -> "exe"
      [] t = "Bat" -> "bat"
      [] t = "C" -> "c"
      [] t = "X" -> "x"
      [] t = "Windows" -> "windows"
      [] t = "System32" -> "system32"
      [] t = "Regedit" -> "regedit"
      [] OTHER -> t

StrPath(toks) == [isstr |-> TRUE, toks |-> toks]
NonePath == [isstr |-> FALSE, toks |-> <<>>]     \* a path argument that is no string

IsSep(t) == t \in {BS, "/"}

HasDotDot(toks) == \E i \in 1 .. Len(toks) - 1 : toks[i] = "." /\ toks[i + 1] = "."
InvalidIn(toks) == {toks[i] : i \in 1 .. Len(toks)} \cap INVALID_CHARS
StartsWithUNC(toks) == Len(toks) >= 2 /\ toks[1] = BS /\ toks[2] = BS

(* ntpath.splitdrive: the offset at which the part after the drive starts *)
DriveEnd(toks) ==
    IF Len(toks) >= 3 /\ IsSep(toks[1]) /\ IsSep(toks[2]) /\ ~IsSep(toks[3])
    THEN LET seps == {i \in 4 .. Len(toks) : IsSep(toks[i])}
         IN IF seps = {} THEN 0
            ELSE LET first == CHOOSE i \in seps : \A j \in seps : i <= j
                     later == {i \in seps : i > first}
                 IN IF later = {} THEN Len(toks)
                    ELSE IF (CHOOSE i \in later : \A j \in later : i <= j) = first + 1 THEN 0
                    ELSE (CHOOSE i \in later : \A j \in later : i <= j) - 1
    ELSE IF Len(toks) >= 2 /\ toks[2] = ":" THEN 2
    ELSE 0

(* os.path.isabs: ntpath on Windows, posixpath elsewhere *)
isabs(toks, os) ==
    IF os = "nt"
    THEN LET d == DriveEnd(toks) IN Len(toks) > d /\ IsSep(toks[d + 1])
    ELSE Len(toks) >= 1 /\ toks[1] = "/"

Msg(code, ch) == [code |-> code, ch |-> ch]
NoMsg == Msg("", "")

ValidateSecurityTraversalFirst(p, os) ==
    IF ~p.isstr THEN {[ok |-> FALSE, msg |-> Msg("validation_error", "")]}
    ELSE IF HasDotDot(p.toks) THEN {[ok |-> FALSE, msg |-> Msg("path_traversal", "")]}
    ELSE IF PathLen(p.toks) > MAX_PATH_LENGTH THEN {[ok |-> FALSE, msg |-> Msg("too_long", "")]}
    ELSE IF InvalidIn(p.toks) # {}
         THEN {[ok |-> FALSE, msg |-> Msg("invalid_char", c)] : c \in InvalidIn(p.toks)}
    ELSE IF ~isabs(p.toks, os) THEN {[ok |-> FALSE, msg |-> Msg("not_absolute", "")]}
    ELSE IF StartsWithUNC(p.toks) THEN {[ok |-> FALSE, msg |-> Msg("unc_path", "")]}
    ELSE {[ok |-> TRUE, msg |-> NoMsg]}

ValidateSecurityNoUNC(p, os) ==
    IF ~p.isstr THEN {[ok |-> FALSE, msg |-> Msg("validation_error", "")]}
    ELSE IF PathLen(p.toks) > MAX_PATH_LENGTH THEN {[ok |-> FALSE, msg |-> Msg("too_long", "")]}
    ELSE IF HasDotDot(p.toks) THEN {[ok |-> FALSE, msg |-> Msg("path_traversal", "")]}
    ELSE IF InvalidIn(p.toks) # {}
         THEN {[ok |-> FALSE, msg |-> Msg("invalid_char", c)] : c \in InvalidIn(p.toks)}
    ELSE IF ~isabs(p.toks, os) THEN {[ok |-> FALSE, msg |-> Msg("not_absolute", "")]}
    ELSE {[ok |-> TRUE, msg |-> NoMsg]}

(* _validate_security: the set of (ok, message) pairs it may return; the   *)
(* invalid character named is the first the iteration over the set meets.  *)
validate_security(p, os) ==
    IF ~p.isstr THEN {[ok |-> FALSE, msg |-> Msg("validation_error", "")]}
    ELSE IF PathLen(p.toks) > MAX_PATH_LENGTH THEN {[ok |-> FALSE, msg |-> Msg("too_long", "")]}
    ELSE IF HasDotDot(p.toks) THEN {[ok |-> FALSE, msg |-> Msg("path_traversal", "")]}
    ELSE IF InvalidIn(p.toks) # {}
         THEN {[ok |-> FALSE, msg |-> Msg("invalid_char", c)] : c \in InvalidIn(p.toks)}
    ELSE IF ~isabs(p.toks, os) THEN {[ok |-> FALSE, msg |-> Msg("not_absolute", "")]}
    ELSE IF StartsWithUNC(p.toks) THEN {[ok |-> FALSE, msg |-> Msg("unc_path", "")]}
    ELSE {[ok |-> TRUE, msg |-> NoMsg]}

(* what the file system says about a path *)
Attrs == {[exists |-> FALSE, isdir |-> FALSE, size |-> 0],
          [exists |-> TRUE, isdir |-> TRUE, size |-> 4096],
          [exists |-> TRUE, isdir |-> FALSE, size |-> 0],
          [exists |-> TRUE, isdir |-> FALSE, size |-> 1024]}

NoAttrs == [exists |-> FALSE, isdir |-> FALSE, size |-> 0]

(* Path(file_path).suffix.lower(), without the dot; "" when there is none *)
LastSep(toks) ==
    LET seps == {i \in 1 .. Len(toks) : IsSep(toks[i])}
    IN IF seps = {} THEN 0 ELSE CHOOSE i \in seps : \A j \in seps : j <= i

Suffix(toks) ==
    LET dots == {i \in LastSep(toks) + 2 .. Len(toks) - 1 : toks[i] = "."}
    IN IF dots = {} \/ Len(toks) = 0 \/ toks[Len(toks)] = "." THEN ""
       ELSE LET d == CHOOSE i \in dots : \A j \in dots : j <= i
            IN IF d + 1 = Len(toks) THEN Lower(toks[d + 1]) ELSE "other"

ValidExecutableAnySize(p, at) ==
    /\ at.exists
    /\ ~at.isdir
    /\ Suffix(p.toks) \in VALID_EXTENSIONS

is_valid_executable(p, at) ==
    /\ at.exists
    /\ ~at.isdir
    /\ Suffix(p.toks) \in VALID_EXTENSIONS
    /\ at.size # 0

NoPid == 0
NoCode == -1
ErrCodes == {NoCode, 22}      \* e.errno of an OSError: may be unset

LaunchResult(success, pid, code, msg) ==
    [success |-> success, process_id |-> pid, error_code |-> code, error_message |-> msg]

Call(p, secure, at, steps, r) ==
    [path |-> p, secure |-> secure, at |-> at, steps |-> steps, result |-> r]

LaunchUngated(p, sec_r, at, outcome, pid, code) ==
    IF ~at.exists
    THEN Call(p, sec_r.ok, at, <<"security", "exists">>,
              LaunchResult(FALSE, NoPid, NoCode, Msg("not_found", "")))
    ELSE IF ~is_valid_executable(p, at)
    THEN Call(p, sec_r.ok, at, <<"security", "exists", "valid">>,
              LaunchResult(FALSE, NoPid, NoCode, Msg("invalid_format", "")))
    ELSE Call(p, sec_r.ok, at, <<"security", "exists", "valid", "spawn">>,
              IF outcome = "started" THEN LaunchResult(TRUE, pid, NoCode, NoMsg)
              ELSE LaunchResult(FALSE, NoPid, NoCode, Msg("unexpected", "")))

SpawnResultErrnoAlways(outcome, pid, code) ==
    CASE outcome = "started" -> LaunchResult(TRUE, pid, NoCode, NoMsg)
      [] outcome = "FileNotFoundError" ->
           LaunchResult(FALSE, NoPid, 2, Msg("file_not_found", ""))
      [] outcome = "PermissionError" ->
           LaunchResult(FALSE, NoPid, 13, Msg("permission", ""))
      [] outcome = "OSError" ->
           LaunchResult(FALSE, NoPid, code, Msg("system_error", ""))
      [] OTHER ->
           LaunchResult(FALSE, NoPid, NoCode, Msg("unexpected", ""))

(* the LaunchResult of the spawn step: subprocess.Popen returns the        *)
(* process, or raises and one of the except clauses builds the result      *)
spawn_result(outcome, pid, code) ==
    CASE outcome = "started" -> LaunchResult(TRUE, pid, NoCode, NoMsg)
      [] outcome = "FileNotFoundError" ->
           LaunchResult(FALSE, NoPid, NoCode, Msg("file_not_found", ""))
      [] outcome = "PermissionError" ->
           LaunchResult(FALSE, NoPid, NoCode, Msg("permission", ""))
      [] outcome = "OSError" ->
           LaunchResult(FALSE, NoPid, code, Msg("system_error", ""))
      [] OTHER ->
           LaunchResult(FALSE, NoPid, NoCode, Msg("unexpected", ""))

(* launch_application: sec_r is what _validate_security returned, at what  *)
(* the file system holds at the path, outcome what subprocess.Popen does,   *)
(* pid the id of the started process, code the errno of an OSError.  The   *)
(* call is recorded with the steps it evaluated, in order.                 *)
launch_application(p, sec_r, at, outcome, pid, code) ==
    IF ~sec_r.ok
    THEN Call(p, FALSE, at, <<"security">>, LaunchResult(FALSE, NoPid, NoCode, sec_r.msg))
    ELSE IF ~at.exists
    THEN Call(p, TRUE, at, <<"security", "exists">>,
              LaunchResult(FALSE, NoPid, NoCode, Msg("not_found", "")))
    ELSE IF ~is_valid_executable(p, at)
    THEN Call(p, TRUE, at, <<"security", "exists", "valid">>,
              LaunchResult(FALSE, NoPid, NoCode, Msg("invalid_format", "")))
    ELSE Call(p, TRUE, at, <<"security", "exists", "valid", "spawn">>,
              spawn_result(outcome, pid, code))

(* launch_with_admin: the runas command line is built from the path and   *)
(* nothing is validated or started; the result reports success with no    *)
(* process id                                                              *)
launch_with_admin(p, at) ==
    Call(p, FALSE, at, <<"runas">>, LaunchResult(TRUE, NoPid, NoCode, NoMsg))

(* what subprocess.Popen may do: [outcome, pid, code] *)
PopenResults ==
    {[outcome |-> "started", pid |-> q, code |-> NoCode] : q \in 1 .. MaxPid}
        \cup {[outcome |-> "OSError", pid |-> NoPid, code |-> c] : c \in ErrCodes}
        \cup {[outcome |-> o, pid |-> NoPid, code |-> NoCode] :
                 o \in {"FileNotFoundError", "PermissionError", "Exception"}}

-----------------------------------------------------------------------------
(* The other public methods of the Launch Gate.  They read the file system *)
(* and the OS process table (psutil).                                      *)

Pids == 1 .. MaxProc

(* a process as psutil.process_iter(['pid', 'name', 'exe']) reports it:    *)
(* name and exe are token sequences, <<>> when psutil gives None; term is  *)
(* what Process.terminate() does to it                                     *)
Proc(name, exe, term) == [running |-> TRUE, name |-> name, exe |-> exe, term |-> term]
NoProc == [running |-> FALSE, name |-> <<>>, exe |-> <<>>, term |-> "NoSuchProcess"]

(* os.sep and os.altsep of the platform *)
IsSepOn(t, os) == IF os = "nt" THEN t \in {BS, "/"} ELSE t = "/"

(* str.lower() on a whole path *)
LowerSeq(toks) == [i \in 1 .. Len(toks) |-> Lower(toks[i])]

(* os.path.basename *)
basename(toks, os) ==
    LET d == IF os = "nt" THEN DriveEnd(toks) ELSE 0
        seps == {i \in d + 1 .. Len(toks) : IsSepOn(toks[i], os)}
        start == IF seps = {} THEN d ELSE CHOOSE i \in seps : \A j \in seps : j <= i
    IN SubSeq(toks, start + 1, Len(toks))

(* os.path.normpath, for paths that hold no empty, "." or inner ".."        *)
(* component: ntpath turns every "/" into a backslash, posixpath leaves    *)
(* the path as it is                                                       *)
normpath(toks, os) ==
    IF os = "nt" THEN [i \in 1 .. Len(toks) |-> IF toks[i] = "/" THEN BS ELSE toks[i]]
    ELSE toks

StartsWith(a, b) == Len(b) <= Len(a) /\ \A i \in 1 .. Len(b) : a[i] = b[i]

(* the outcome of a method: the value returned, or the exception raised *)
Returned(v) == [ret |-> v, raised |-> "none"]
Raised(e) == [ret |-> "nothing", raised |-> e]

(* is_valid_executable as a public method: fault is an OSError of the      *)
(* file-system calls (exists, is_dir, stat)                                *)
valid_executable_call(p, at, fault) ==
    IF ~p.isstr THEN Raised("TypeError")            \* Path(file_path)
    ELSE IF fault = "OSError" THEN Returned("false")
    ELSE Returned(IF is_valid_executable(p, at) THEN "true" ELSE "false")

admin_apps == {<<"regedit", ".", "exe">>, <<"gpedit", ".", "msc">>,
               <<"secpol", ".", "msc">>, <<"services", ".", "msc">>}

(* os.path.join(os.environ.get(name, ''), leaf) *)
JoinDir(root, leaf, os) ==
    IF root = <<>> THEN <<leaf>>
    ELSE IF IsSepOn(root[Len(root)], os) THEN root \o <<leaf>>
    ELSE root \o <<IF os = "nt" THEN BS ELSE "/">> \o <<leaf>>

system_dirs(windir, progfiles, os) ==
    {JoinDir(windir, "System32", os), JoinDir(windir, "SysWOW64", os),
     JoinDir(progfiles, "Windows NT", os)}

(* requires_admin_privileges *)
requires_admin_privileges(p, windir, progfiles, os) ==
    IF ~p.isstr THEN Returned("false")              \* TypeError, caught
    ELSE LET normalized_path == LowerSeq(normpath(p.toks, os))
             hit == \E d \in system_dirs(windir, progfiles, os) :
                       StartsWith(normalized_path, LowerSeq(normpath(d, os)))
         IN Returned(IF hit /\ basename(normalized_path, os) \in admin_apps
                     THEN "true" ELSE "false")

(* the test both scans apply to one process *)
Matches(pr, p, os) ==
    \/ pr.name # <<>> /\ LowerSeq(pr.name) = LowerSeq(basename(p.toks, os))
    \/ pr.exe # <<>> /\ LowerSeq(normpath(pr.exe, os)) = LowerSeq(normpath(p.toks, os))

(* is_application_running: enum is what psutil.process_iter does *)
is_application_running(p, table, os, enum) ==
    IF ~p.isstr \/ enum # "ok" THEN Returned("false")
    ELSE Returned(IF \E q \in Pids : table[q].running /\ Matches(table[q], p, os)
                  THEN "true" ELSE "false")

(* the loop of kill_application over the processes, in pid order:          *)
(* [table, killed, failed]                                                 *)
RECURSIVE KillLoop(_, _, _, _, _)
KillLoop(table, q, p, os, killed) ==
    IF q > MaxProc THEN [table |-> table, killed |-> killed, failed |-> FALSE]
    ELSE IF ~(table[q].running /\ Matches(table[q], p, os))
    THEN KillLoop(table, q + 1, p, os, killed)
    ELSE CASE table[q].term = "ok" ->
                 KillLoop([table EXCEPT ![q] = NoProc], q + 1, p, os, TRUE)
           [] table[q].term = "NoSuchProcess" ->
                 \* the process ended after process_iter listed it
                 KillLoop([table EXCEPT ![q] = NoProc], q + 1, p, os, killed)
           [] table[q].term = "AccessDenied" ->
                 KillLoop(table, q + 1, p, os, killed)
           [] OTHER -> [table |-> table, killed |-> killed, failed |-> TRUE]

(* kill_application: [table, out] *)
kill_application(p, table, os, enum) ==
    IF ~p.isstr \/ enum # "ok" THEN [table |-> table, out |-> Returned("false")]
    ELSE LET r == KillLoop(table, 1, p, os, FALSE)
         IN [table |-> r.table,
             out |-> Returned(IF r.killed /\ ~r.failed THEN "true" ELSE "false")]

(* get_process_info: psutil.Process(pid) refuses a negative pid *)
get_process_info(pid, table) ==
    IF pid < 0 THEN Raised("ValueError")
    ELSE IF pid \notin Pids \/ ~table[pid].running THEN Returned("none")
    ELSE IF table[pid].name = <<>> \/ table[pid].exe = <<>> THEN Returned("none")
    ELSE Returned("info")

(* a call, with what the OS showed it: the attributes of the file and the  *)
(* fault of the OS calls, if any                                           *)
Probe(op, p, pid, at, fault, out) ==
    [op |-> op, path |-> p, pid |-> pid, at |-> at, fault |-> fault,
     ret |-> out.ret, raised |-> out.raised]

NoProbe == Probe("none", NonePath, 0, NoAttrs, "ok", Returned("nothing"))

(* Inputs of the queries *)

XExe == <<"x", ".", "exe">>
CXExe == <<"C", ":", BS, "x", ".", "exe">>
Regedit == <<"C", ":", BS, "Windows", BS, "System32", BS, "Regedit", ".", "exe">>
WinDir == <<"C", ":", BS, "Windows">>
ProgFiles == <<"C", ":", BS, "P">>

QueryPaths == {StrPath(CXExe), StrPath(<<"X", ".", "EXE">>), StrPath(Regedit),
               StrPath(<<"C", ":", "/", "x", ".", "txt">>), NonePath}

ProcKinds ==
    {Proc(XExe, CXExe, "ok"),
     Proc(<<"X", ".", "EXE">>, <<>>, "AccessDenied"),
     Proc(<<>>, <<"c", ":", "/", "x", ".", "exe">>, "NoSuchProcess"),
     Proc(<<"y", ".", "exe">>, <<"C", ":", BS, "y", ".", "exe">>, "OSError")}

Enums == {"ok", "Error"}
WinDirs == {<<>>, WinDir}
InfoPids == -1 .. MaxProc

(* Actions *)

(* a process starts or exits, outside the program *)
ProcStart(q, pr) ==
    /\ ~procs[q].running
    /\ procs' = [procs EXCEPT ![q] = pr]
    /\ UNCHANGED <<osname, spawned, launch, probe>>
    /\ UNCHANGED cfgvars
    /\ UNCHANGED vvars
    /\ UNCHANGED xvars

ProcExit(q) ==
    /\ procs[q].running
    /\ procs' = [procs EXCEPT ![q] = NoProc]
    /\ UNCHANGED <<osname, spawned, launch, probe>>
    /\ UNCHANGED cfgvars
    /\ UNCHANGED vvars
    /\ UNCHANGED xvars

IsValidExecutable(p) ==
    /\ \E at \in Attrs, fault \in {"ok", "OSError"} :
          probe' = Probe("is_valid_executable", p, 0, at, fault,
                         valid_executable_call(p, at, fault))
    /\ UNCHANGED <<osname, spawned, launch, procs>>
    /\ UNCHANGED cfgvars
    /\ UNCHANGED vvars
    /\ UNCHANGED xvars

RequiresAdminPrivileges(p) ==
    /\ \E w \in WinDirs :
          probe' = Probe("requires_admin_privileges", p, 0, NoAttrs, "ok",
                         requires_admin_privileges(p, w, ProgFiles, osname))
    /\ UNCHANGED <<osname, spawned, launch, procs>>
    /\ UNCHANGED cfgvars
    /\ UNCHANGED vvars
    /\ UNCHANGED xvars

IsApplicationRunning(p) ==
    /\ \E enum \in Enums :
          probe' = Probe("is_application_running", p, 0, NoAttrs, enum,
                         is_application_running(p, procs, osname, enum))
    /\ UNCHANGED <<osname, spawned, launch, procs>>
    /\ UNCHANGED cfgvars
    /\ UNCHANGED vvars
    /\ UNCHANGED xvars

KillApplication(p) ==
    /\ \E enum \in Enums :
          LET r == kill_application(p, procs, osname, enum)
          IN /\ procs' = r.table
             /\ probe' = Probe("kill_application", p, 0, NoAttrs, enum, r.out)
    /\ UNCHANGED <<osname, spawned, launch>>
    /\ UNCHANGED cfgvars
    /\ UNCHANGED vvars
    /\ UNCHANGED xvars

GetProcessInfo(pid) ==
    /\ probe' = Probe("get_process_info", NonePath, pid, NoAttrs, "ok",
                       get_process_info(pid, procs))
    /\ UNCHANGED <<osname, spawned, launch, procs>>
    /\ UNCHANGED cfgvars
    /\ UNCHANGED vvars
    /\ UNCHANGED xvars

(* subprocess.Popen([app_path]) without a shell: on Windows CreateProcess    *)
(* runs .exe and .com images and hands .bat and .cmd to the command        *)
(* interpreter; an installer package or a PowerShell script is no          *)
(* executable image and the call fails with an OSError (WinError 193)      *)
Popen(p, os) ==
    IF os = "nt" /\ Suffix(p.toks) \in {"msi", "ps1"}
    THEN {r \in PopenResults : r.outcome = "OSError"}
    ELSE PopenResults

(* Inputs *)

Prefixes ==
    {<<"C", ":", BS>>, <<BS, BS, "s", BS, "s", BS>>, <<BS>>, <<"/">>, <<>>,
     <<".", ".", "/">>}
Bodies == {<<"x">>, <<"x", "*">>, <<"run253">>, <<"run254">>}
Exts == {<<".", "exe">>, <<".", "EXE">>, <<".", "txt">>, <<".", "msi">>}

Paths == {StrPath(pre \o body \o ext) : pre \in Prefixes, body \in Bodies, ext \in Exts}
             \cup {NonePath}

NoCall == Call(NonePath, FALSE, NoAttrs, <<>>, LaunchResult(FALSE, NoPid, NoCode, NoMsg))

InitLaunch ==
    /\ spawned = 0
    /\ launch = NoCall
    /\ procs = [q \in Pids |-> NoProc]
    /\ probe = NoProbe

Init ==
    InitStore /\ InitLaunch /\ osname = "nt" /\ check = NoCheck /\ InitRace /\ InitRecovery

InitL ==
    /\ InitStore /\ InitLaunch /\ osname \in {"nt", "posix"} /\ check = NoCheck
    /\ InitRace /\ InitRecovery

Spawns(c) == \E i \in 1 .. Len(c.steps) : c.steps[i] = "spawn"

(* one launch_application call; a file that would not pass the checks     *)
(* never reaches Popen, so Popen's outcomes are drawn only for one that    *)
(* would                                                                   *)
LaunchApplication(p) ==
    /\ spawned < MaxSpawn
    /\ \E sec_r \in validate_security(p, osname), at \in Attrs :
         \E po \in IF is_valid_executable(p, at) THEN Popen(p, osname)
                   ELSE {[outcome |-> "started", pid |-> 1, code |-> NoCode]} :
            /\ launch' = launch_application(p, sec_r, at, po.outcome, po.pid, po.code)
            /\ spawned' = spawned + (IF Spawns(launch') THEN 1 ELSE 0)
    /\ UNCHANGED <<osname, procs, probe>>
    /\ UNCHANGED cfgvars
    /\ UNCHANGED vvars
    /\ UNCHANGED xvars

(* one launch_with_admin call *)
LaunchWithAdmin(p) ==
    /\ \E at \in Attrs : launch' = launch_with_admin(p, at)
    /\ UNCHANGED <<osname, spawned, procs, probe>>
    /\ UNCHANGED cfgvars
    /\ UNCHANGED vvars
    /\ UNCHANGED xvars

Next ==
    \/ Tick(MaxSec)
    \/ \E arg \in SaveInputs, io \in IOs : SaveConfig(arg, io, MaxClock)
    \/ \E io \in IOs : LoadConfig(io, MaxClock)
    \/ \E io \in IOs : BackupConfig(io)
    \/ \E n \in 0 .. MaxSec, io \in IOs : RestoreFromBackup(n, io, MaxClock)
    \/ \E io \in IOs : ResetToDefault(io, MaxClock)
    \/ \E kind \in CorruptKinds : Corrupt(kind, MaxClock)
    \/ Delete

Spec == Init /\ [][Next]_vars

(* The same store with one input, no faults and more seconds: enough       *)
(* backups for the rotation to fill and overflow.                          *)
NextRot ==
    \/ Tick(RotSec)
    \/ SaveConfig(DictArg(cfgA), "ok", RotClock)
    \/ LoadConfig("ok", RotClock)
    \/ BackupConfig("ok")
    \/ \E n \in 0 .. RotSec : RestoreFromBackup(n, "ok", RotClock)
    \/ ResetToDefault("ok", RotClock)

SpecRot == Init /\ [][NextRot]_vars

(* Successive saves only, with or without a second passing between them.   *)
NextRun ==
    \/ Tick(RunSec)
    \/ SaveConfig(DictArg(cfgA), "ok", RunClock)

SpecRun == Init /\ [][NextRun]_vars

(* The Launch Gate on either platform. *)
NextLaunch == \E p \in Paths : LaunchApplication(p)

SpecLaunch == InitL /\ [][NextLaunch]_vars

(* validate_config on its own: a pure function of its argument. *)
NextValidate == \E c \in ValidateInputs : ValidateConfig(c)

SpecValidate == Init /\ [][NextValidate]_vars

(* The store and validate_config on mappings with an out-of-range value. *)
AsymInputs == {cfgRange, cfgSize}

NextAsym ==
    \/ Tick(MaxSec)
    \/ \E c \in AsymInputs : SaveConfig(DictArg(c), "ok", MaxClock)
    \/ LoadConfig("ok", MaxClock)
    \/ \E c \in AsymInputs : ValidateConfig(c)

SpecAsym == Init /\ [][NextAsym]_vars

(* Saves of arguments the basic validation rejects, among saves it accepts. *)
NextReject ==
    \/ Tick(MaxSec)
    \/ \E arg \in RejectInputs \cup AcceptInputs, io \in RejectIOs :
          SaveConfig(arg, io, MaxClock)
    \/ Corrupt("malformed", MaxClock)

SpecReject == Init /\ [][NextReject]_vars

(* Every public method of the Launch Gate, against a changing process table. *)
NextGate ==
    \/ \E q \in Pids, pr \in ProcKinds : ProcStart(q, pr)
    \/ \E q \in Pids : ProcExit(q)
    \/ \E p \in {StrPath(CXExe), NonePath} : LaunchApplication(p)
    \/ \E p \in QueryPaths : IsValidExecutable(p)
    \/ \E p \in QueryPaths : RequiresAdminPrivileges(p)
    \/ \E p \in QueryPaths : IsApplicationRunning(p)
    \/ \E p \in QueryPaths : KillApplication(p)
    \/ \E pid \in InfoPids : GetProcessInfo(pid)

SpecGate == InitL /\ [][NextGate]_vars

(* The store without restore_from_backup and without I/O faults: load,    *)
(* save, backup and reset, and the live file corrupted from outside.       *)
NextSnapshots ==
    \/ Tick(MaxSec)
    \/ \E arg \in {DictArg(cfgA), DictArg(cfgPartial)} : SaveConfig(arg, "ok", MaxClock)
    \/ LoadConfig("ok", MaxClock)
    \/ BackupConfig("ok")
    \/ ResetToDefault("ok", MaxClock)
    \/ \E kind \in CorruptKinds : Corrupt(kind, MaxClock)

SpecSnapshots == Init /\ [][NextSnapshots]_vars

(* Saves, backups and restores over enough seconds for the rotation to     *)
(* delete more than once.                                                  *)
NextAge ==
    \/ Tick(RunSec)
    \/ SaveConfig(DictArg(cfgA), "ok", RotClock)
    \/ BackupConfig("ok")
    \/ \E n \in 0 .. RunSec : RestoreFromBackup(n, "ok", RotClock)

SpecAge == Init /\ [][NextAge]_vars

(* Both launch entry points of the Launch Gate, on either platform. *)
NextAdmin ==
    \/ \E p \in Paths : LaunchApplication(p)
    \/ \E p \in Paths : LaunchWithAdmin(p)

SpecAdmin == InitL /\ [][NextAdmin]_vars

(* Two threads that each call save_config once, on a path that holds a    *)
(* saved configuration or no file.                                         *)
InitRaceDisk ==
    /\ InitStore /\ InitLaunch /\ osname = "nt" /\ check = NoCheck /\ InitRecovery
    /\ writer = [t \in Writers |-> Idle]
    /\ disk \in {NoDisk, OnDisk(Text(cfgA)), OnDisk(Text(get_default_config))}
    /\ snaps = {}

NextRace ==
    \/ \E t \in Writers, arg \in RaceInputs : RaceCall(t, arg)
    \/ \E t \in Writers : RaceBackup(t)
    \/ \E t \in Writers : RaceOpen(t)
    \/ \E t \in Writers : RaceClose(t)

SpecRace == InitRaceDisk /\ [][NextRace]_vars

(* ErrorRecovery on its own. *)
NextRecovery ==
    \/ \E cat \in Categories : RegisterHandler(cat)
    \/ \E info \in ErrorInfos : AttemptRecovery(info)
    \/ \E cat \in Categories \cup {<<>>} : ResetRecoveryAttempts(cat)

SpecRecovery == Init /\ [][NextRecovery]_vars

-----------------------------------------------------------------------------
(* Properties *)

Loaded(io) == res.op = "load_config" /\ res.io = io
Saved == res.op \in {"save_config", "reset_to_default"} /\ res.raised = "none" /\ res.ret.b
HoldsConfig(f, c) == f.kind = "object" /\ StripMetadata(f) = c /\ f.meta # NoMeta

(* the default configuration as the specification spells it *)
StatedDefault ==
    MkCfg(StrV(""), DictV(IntC(100), IntC(100)), BoolV(FALSE), BoolV(FALSE),
          IntV(32), StrV("1.0.0"))

(* C1: round trip.  A load_config that follows a successful save_config of *)
(* a mapping satisfying the strict schema returns that mapping, whatever   *)
(* the live file and the backup directory held before the save.            *)
C1_RoundTrip ==
    (Loaded("ok") /\ saved.py = "dict" /\ validate_config(saved.c))
        => (res.raised = "none" /\ res.ret.k = "map" /\ res.ret.map = saved.c)

C1_Witness ==
    /\ Loaded("ok") /\ saved = DictArg(cfgA) /\ res.ret.map = cfgA
    /\ BackupFiles(backups) # {}

(* C2: security rejection set.  A launch_application call on a path that   *)
(* contains "..", is relative, is longer than 260 characters, contains one *)
(* of < > | " * ? or starts with two backslashes returns success = false   *)
(* and never reaches the process spawn.                                    *)
InRejectionSet(p, os) ==
    /\ p.isstr
    /\ \/ HasDotDot(p.toks)
       \/ ~isabs(p.toks, os)
       \/ PathLen(p.toks) > 260
       \/ \E i \in 1 .. Len(p.toks) : p.toks[i] \in {"<", ">", "|", "\"", "*", "?"}
       \/ (Len(p.toks) >= 2 /\ p.toks[1] = BS /\ p.toks[2] = BS)

Called == launch.steps # <<>>

C2_SecurityRejection ==
    (Called /\ InRejectionSet(launch.path, osname))
        => (~launch.result.success /\ ~Spawns(launch) /\ launch.result.process_id = NoPid)

C2_Witness ==
    /\ Called /\ osname = "nt"
    /\ launch.path = StrPath(<<BS, BS, "s", BS, "s", BS, "x", ".", "exe">>)
    /\ launch.at = [exists |-> TRUE, isdir |-> FALSE, size |-> 1024]
    /\ ~launch.result.success
    /\ launch.result.error_message.code = "unc_path"

(* C3: launch gating order.  The steps of a launch_application call are a  *)
(* prefix of security, existence, type, spawn that stops at the first      *)
(* failing check: the spawn is reached only when the three checks passed,  *)
(* and a path that fails the security validation has no other step.        *)
GateOrder == <<"security", "exists", "valid", "spawn">>

IsPrefix(a, b) == Len(a) <= Len(b) /\ \A i \in 1 .. Len(a) : a[i] = b[i]

C3_GatingOrder ==
    Called =>
        /\ IsPrefix(launch.steps, GateOrder)
        /\ launch.secure = (\E r \in validate_security(launch.path, osname) : r.ok)
        /\ ~launch.secure => launch.steps = <<"security">>
        /\ (launch.secure /\ ~launch.at.exists) => launch.steps = <<"security", "exists">>
        /\ (launch.secure /\ launch.at.exists /\ ~is_valid_executable(launch.path, launch.at))
              => launch.steps = <<"security", "exists", "valid">>
        /\ Spawns(launch) <=>
              (launch.secure /\ launch.at.exists /\ is_valid_executable(launch.path, launch.at))
        /\ launch.result.success => Spawns(launch)

C3_Witness ==
    /\ launch.steps = GateOrder
    /\ launch.result.success
    /\ spawned = 1

(* C4: corruption recovery.  A load_config that finds malformed JSON in    *)
(* the live file while the backup directory holds a valid backup (a JSON   *)
(* object) returns the content of the valid backup with the latest         *)
(* modification time, and leaves that content in the live file.            *)
ValidBackups(bk) == {n \in BackupFiles(bk) : bk[n].kind = "object"}

LatestValid(bk) ==
    CHOOSE n \in ValidBackups(bk) : \A m \in ValidBackups(bk) \ {n} : SortsBefore(bk, m, n)

C4_CorruptionRecovery ==
    [][(/\ Parse(live) = "JSONDecodeError"
        /\ Exists(live)
        /\ ValidBackups(backups) # {}
        /\ LoadConfig("ok", MaxClock))
          => (/\ res'.raised = "none"
              /\ res'.ret.map = StripMetadata(backups[LatestValid(backups)])
              /\ Content(live') = Content(backups[LatestValid(backups)]))]_vars

(* C5: corruption without backups.  A load_config that finds malformed     *)
(* JSON in the live file and no backup file returns the default            *)
(* configuration and leaves it, with _metadata, in the live file.          *)
C5_CorruptionNoBackups ==
    (Loaded("ok") /\ res.pre.live \in {"malformed", "partial"} /\ res.pre.nb = 0)
        => (/\ res.raised = "none"
            /\ res.ret.map = StatedDefault
            /\ HoldsConfig(live, StatedDefault))

C5_Witness ==
    /\ Loaded("ok") /\ res.pre.live = "malformed" /\ res.pre.nb = 0
    /\ res.ret.map = StatedDefault
    /\ HoldsConfig(live, StatedDefault)

(* C6: default on missing.  A load_config on a path with no live file      *)
(* returns the default configuration and creates the file holding it.      *)
C6_DefaultOnMissing ==
    (Loaded("ok") /\ res.pre.live = "none")
        => (/\ res.raised = "none"
            /\ res.ret.map = StatedDefault
            /\ live.kind = "object"
            /\ StripMetadata(live) = StatedDefault)

C6_Witness ==
    /\ Loaded("ok") /\ res.pre.live = "none"
    /\ res.ret.map = StatedDefault
    /\ live.kind = "object"
    /\ env > 0

(* C7: backup rotation.  After 6 successive successful save_config calls   *)
(* exactly 5 backup files remain, the 5 most recently created.             *)
MostRecent(S, k) == {n \in S : Cardinality({m \in S : m > n}) < k}

C7_BackupRotation ==
    run >= max_backups + 1
        => (/\ get_backup_count(backups) = 5
            /\ BackupFiles(backups) = MostRecent(created, 5))

(* C8: backup retention.  After every successful save_config, in any       *)
(* sequence of load, save, backup, restore and reset operations, the       *)
(* backup directory holds at most 5 backup files.                          *)
C8_BackupRetention == Saved => get_backup_count(backups) <= 5

C8_Witness ==
    /\ Saved /\ res.op = "save_config"
    /\ get_backup_count(backups) = 5
    /\ Cardinality(created) = 6

(* C9: loaded-configuration invariant.  Every mapping load_config returns  *)
(* satisfies the configuration constraints or is the default               *)
(* configuration.                                                          *)
C9_LoadedIsValid ==
    (res.op = "load_config" /\ res.raised = "none")
        => (validate_config(res.ret.map) \/ res.ret.map = StatedDefault)

(* C10: the Configuration Store never raises.  load_config, save_config,   *)
(* backup_config and restore_from_backup return a mapping, a boolean or    *)
(* none for every argument and every state of the file system.             *)
C10_NeverRaises ==
    res.op \in {"load_config", "save_config", "backup_config", "restore_from_backup"}
        => res.raised = "none"

(* C11: the Launch Gate never raises.  launch_application,                 *)
(* is_valid_executable, requires_admin_privileges, is_application_running, *)
(* kill_application and get_process_info return their result for every     *)
(* argument and every outcome of the OS calls.                             *)
C11_GateNeverRaises == probe.raised = "none"

(* C12: valid launch.  A launch_application call on an absolute path that  *)
(* passes the security validation and names an existing, non-empty regular *)
(* file with an extension in {.exe,.com,.bat,.cmd,.msi,.ps1} returns       *)
(* success = true with a positive process_id and no error message.         *)
C12_ValidLaunch ==
    (/\ Called
     /\ launch.path.isstr
     /\ isabs(launch.path.toks, osname)
     /\ launch.secure
     /\ launch.at.exists /\ ~launch.at.isdir /\ launch.at.size > 0
     /\ Suffix(launch.path.toks) \in {"exe", "com", "bat", "cmd", "msi", "ps1"})
        => (/\ launch.result.success
            /\ launch.result.process_id > 0
            /\ launch.result.error_message = NoMsg)

(* C13: is_valid_executable(path) returns true exactly when the path       *)
(* exists, is not a directory, has an extension that is, compared without  *)
(* regard to case, one of .exe .com .bat .cmd .msi .ps1, and has a size    *)
(* above 0 bytes; a zero-byte file and a directory yield false.            *)
StatedExtension(toks) ==
    /\ Len(toks) >= 3
    /\ toks[Len(toks) - 1] = "."
    /\ Lower(toks[Len(toks)]) \in {"exe", "com", "bat", "cmd", "msi", "ps1"}

C13_ValidExecutable ==
    (probe.op = "is_valid_executable" /\ probe.path.isstr /\ probe.fault = "ok")
        => /\ probe.raised = "none"
           /\ probe.ret = "true" <=>
                 (/\ probe.at.exists
                  /\ ~probe.at.isdir
                  /\ StatedExtension(probe.path.toks)
                  /\ probe.at.size > 0)
           /\ (probe.at.isdir \/ probe.at.size = 0) => probe.ret = "false"

C13_Witness ==
    /\ probe.op = "is_valid_executable" /\ probe.fault = "ok"
    /\ probe.path = StrPath(<<"X", ".", "EXE">>)
    /\ probe.at = [exists |-> TRUE, isdir |-> FALSE, size |-> 1024]
    /\ probe.ret = "true"

(* C14: validate_config strictness.  validate_config returns (true, [])    *)
(* exactly when the six keys are present, app_path and version are         *)
(* strings, icon_fixed and auto_start booleans, icon_size an integer in    *)
(* [16,128] and icon_position a mapping with integers x and y in           *)
(* [-32768,32767], a boolean being no integer; otherwise it returns false  *)
(* with a non-empty error list that names an offending key.                *)
StatedInt(v, lo, hi) == v.t = "int" /\ lo <= v.n /\ v.n <= hi

StrictSchema(c) ==
    /\ \A k \in Keys : c[k].t # "absent"
    /\ c.app_path.t = "str" /\ c.version.t = "str"
    /\ c.icon_fixed.t = "bool" /\ c.auto_start.t = "bool"
    /\ StatedInt(c.icon_size, 16, 128)
    /\ c.icon_position.t = "dict"
    /\ StatedInt(c.icon_position.x, -32768, 32767)
    /\ StatedInt(c.icon_position.y, -32768, 32767)

(* the keys of c that break the strict schema *)
Offending(c) ==
    {k \in Keys : c[k].t = "absent"}
      \cup (IF c.app_path.t # "str" THEN {"app_path"} ELSE {})
      \cup (IF c.version.t # "str" THEN {"version"} ELSE {})
      \cup (IF c.icon_fixed.t # "bool" THEN {"icon_fixed"} ELSE {})
      \cup (IF c.auto_start.t # "bool" THEN {"auto_start"} ELSE {})
      \cup (IF ~StatedInt(c.icon_size, 16, 128) THEN {"icon_size"} ELSE {})
      \cup (IF c.icon_position.t # "dict" THEN {"icon_position"}
            ELSE (IF ~StatedInt(c.icon_position.x, -32768, 32767)
                  THEN {"icon_position.x"} ELSE {})
                 \cup (IF ~StatedInt(c.icon_position.y, -32768, 32767)
                       THEN {"icon_position.y"} ELSE {}))

C14_ValidateStrict ==
    check.called =>
        /\ check.ok <=> StrictSchema(check.arg)
        /\ check.ok => check.errors = {}
        /\ ~check.ok => (/\ check.errors # {}
                         /\ \A e \in check.errors : e.key \in Offending(check.arg))

(* C15: validation asymmetry.  For a mapping whose six keys have the right *)
(* primitive types but whose icon_size or a coordinate is out of range,    *)
(* validate_config returns false with a range error for that key, while    *)
(* save_config returns true and writes the mapping and a later load_config *)
(* returns it unchanged.                                                   *)
OutOfRange(c) ==
    (IF ~(16 <= c.icon_size.n /\ c.icon_size.n <= 128) THEN {"icon_size"} ELSE {})
      \cup (IF ~(-32768 <= c.icon_position.x.n /\ c.icon_position.x.n <= 32767)
            THEN {"icon_position.x"} ELSE {})
      \cup (IF ~(-32768 <= c.icon_position.y.n /\ c.icon_position.y.n <= 32767)
            THEN {"icon_position.y"} ELSE {})

RightTypesOutOfRange(c) ==
    /\ c.app_path.t = "str" /\ c.version.t = "str"
    /\ c.icon_fixed.t = "bool" /\ c.auto_start.t = "bool"
    /\ c.icon_size.t = "int"
    /\ c.icon_position.t = "dict"
    /\ c.icon_position.x.t = "int" /\ c.icon_position.y.t = "int"
    /\ OutOfRange(c) # {}

C15_ValidationAsymmetry ==
    /\ (check.called /\ RightTypesOutOfRange(check.arg))
          => (/\ ~check.ok
              /\ \A k \in OutOfRange(check.arg) : Err(k, "range") \in check.errors)
    /\ (res.op = "save_config" /\ res.io = "ok" /\ res.arg.py = "dict"
           /\ RightTypesOutOfRange(res.arg.c))
          => (/\ res.raised = "none" /\ res.ret.b
              /\ HoldsConfig(live, res.arg.c))
    /\ (Loaded("ok") /\ saved.py = "dict" /\ RightTypesOutOfRange(saved.c))
          => (res.raised = "none" /\ res.ret.map = saved.c)

C15_Witness ==
    /\ Loaded("ok") /\ saved = DictArg(cfgRange) /\ res.ret.map = cfgRange
    /\ check.called /\ check.arg = cfgRange /\ ~check.ok
    /\ Err("icon_position.x", "range") \in check.errors

(* C16: a rejected save has no effect.  When the argument of save_config   *)
(* is no mapping, or one of the six keys is present with the wrong         *)
(* primitive type (str, dict, bool, bool, int, str), save_config returns   *)
(* false and leaves the live file and the backup directory as they were; a *)
(* mapping that only lacks keys is not rejected.                           *)
StatedType(k) ==
    CASE k \in {"app_path", "version"} -> {"str"}
      [] k = "icon_position" -> {"dict"}
      [] k \in {"icon_fixed", "auto_start"} -> {"bool"}
      [] OTHER -> {"int", "bool"}        \* a bool is an int to isinstance

WrongType(arg) ==
    \/ arg.py # "dict"
    \/ \E k \in Keys : arg.c[k].t # "absent" /\ arg.c[k].t \notin StatedType(k)

C17_LaunchResultShape ==
    Called =>
        /\ launch.result.success =>
              (/\ launch.result.process_id # NoPid
               /\ launch.result.error_message = NoMsg
               /\ launch.result.error_code = NoCode)
        /\ ~launch.result.success =>
              (/\ launch.result.process_id = NoPid
               /\ launch.result.error_message # NoMsg)
        /\ launch.result.error_code # NoCode =>
              (/\ Spawns(launch)
               /\ launch.result.error_message = Msg("system_error", ""))

C17_Witness ==
    /\ Called /\ Spawns(launch)
    /\ ~launch.result.success
    /\ launch.result.error_code = 22
    /\ launch.result.error_message = Msg("system_error", "")

(* C18: backups are immutable.  Once backup_config has created a backup    *)
(* file, no later save_config, backup_config, load_config,                 *)
(* restore_from_backup or reset_to_default changes its content; it can     *)
(* only be deleted by the rotation.                                        *)
C18_BackupsImmutable ==
    [][\A n \in Names :
          Exists(backups[n]) =>
             (~Exists(backups'[n]) \/ Content(backups'[n]) = Content(backups[n]))]_vars

(* C19: restore_from_backup copies the backup over the live file without   *)
(* validating it.  For an existing backup, whatever it holds, it returns   *)
(* true and the live file then equals the backup; when the backup does not *)
(* exist or the copy fails it returns false and the live file is as it     *)
(* was.                                                                    *)
CopyFails(io) == io \in {"write_denied", "write_interrupted"}

C19_RestoreCopies ==
    [][\A n \in 0 .. MaxSec, io \in IOs :
          RestoreFromBackup(n, io, MaxClock) =>
             /\ (Exists(backups[n]) /\ ~CopyFails(io)) =>
                   (/\ res'.raised = "none" /\ res'.ret = RetBool(TRUE)
                    /\ Content(live') = Content(backups[n]))
             /\ (~Exists(backups[n]) \/ CopyFails(io)) =>
                   (/\ res'.raised = "none" /\ res'.ret = RetBool(FALSE)
                    /\ live' = live)]_vars

(* C20: a load on an I/O error persists nothing.  When reading the live    *)
(* file fails with a permission or other OS error, load_config returns the *)
(* default mapping and writes neither the live file nor a backup.          *)
C20_LoadErrorPersistsNothing ==
    [][(LoadConfig("read_denied", MaxClock) /\ Exists(live))
          => (/\ res'.raised = "none"
              /\ res'.ret = RetMap(StatedDefault)
              /\ live' = live
              /\ backups' = backups)]_vars

C20_Witness ==
    /\ res.op = "load_config" /\ res.io = "read_denied"
    /\ res.ret = RetMap(StatedDefault)
    /\ live.kind = "object" /\ StripMetadata(live) = cfgA
    /\ BackupFiles(backups) # {}

(* C21: concurrent writers, last write wins.  When two save_config calls   *)
(* on the same path have both returned true, the live file holds the       *)
(* complete text of one of the two mappings, in every interleaving of      *)
(* their steps.                                                            *)
BothSaved == \A t \in Writers : writer[t].pc = "done" /\ writer[t].ret = "true"

C21_LastWriteWins ==
    BothSaved => \E t \in Writers : disk = OnDisk(Text(writer[t].arg.c))

(* C22: recovery retries load once and terminates.  A load_config that     *)
(* finds malformed JSON in the live file returns, after at most one        *)
(* recursive retry: either a backup was restored and the single retry      *)
(* returns its content, or no backup could be restored and the default     *)
(* configuration is returned and persisted.                                *)
FoundMalformed == Loaded("ok") /\ res.pre.live \in {"malformed", "partial"}

C22_RetryOnceAndTerminate ==
    FoundMalformed =>
        /\ res.raised = "none"
        /\ res.retries <= 1
        /\ res.retries = 1 =>
              /\ \E n \in BackupFiles(backups) : Content(backups[n]) = Content(live)
              /\ live.kind = "object" /\ res.ret.map = StripMetadata(live)
        /\ res.retries = 0 =>
              /\ res.ret.map = StatedDefault
              /\ HoldsConfig(live, StatedDefault)

(* what holds of the same calls: none makes more than one retry *)
AtMostOneRetry == Loaded("ok") => res.retries <= 1

(* C23: save backs up the prior file first.  Whenever save_config returns  *)
(* true on a path where a live file existed, the backup directory holds,   *)
(* right after the save, a backup whose content is that of the live file   *)
(* just before the save.                                                   *)
HoldsBackupOf(bk, f) == \E n \in BackupFiles(bk) : Content(bk[n]) = Content(f)

C23_SaveBacksUpFirst ==
    [][\A arg \in SaveInputs, io \in IOs :
          (/\ Exists(live)
           /\ SaveConfig(arg, io, MaxClock)
           /\ res'.raised = "none" /\ res'.ret.b)
             => HoldsBackupOf(backups', live)]_vars

(* C24: security validation decision order.  The validation checks, in     *)
(* this order, length > 260, "..", one of < > | " * ?, not absolute,       *)
(* leading double backslash.  A path that violates several rules gets the  *)
(* message of the first it violates in this order, the five messages are   *)
(* pairwise distinct, a path of exactly 260 characters passes the length   *)
(* check, and a path that violates none is accepted with no message.       *)
StatedRules == <<"too_long", "path_traversal", "invalid_char", "not_absolute", "unc_path">>

StatedChars == {"<", ">", "|", "\"", "*", "?"}

Violates(rule, p, os) ==
    CASE rule = "too_long" -> PathLen(p.toks) > 260
      [] rule = "path_traversal" ->
           \E i \in 1 .. Len(p.toks) - 1 : p.toks[i] = "." /\ p.toks[i + 1] = "."
      [] rule = "invalid_char" -> \E i \in 1 .. Len(p.toks) : p.toks[i] \in StatedChars
      [] rule = "not_absolute" -> ~isabs(p.toks, os)
      [] OTHER -> Len(p.toks) >= 2 /\ p.toks[1] = BS /\ p.toks[2] = BS

ViolatedRules(p, os) == {i \in 1 .. Len(StatedRules) : Violates(StatedRules[i], p, os)}

FirstViolated(p, os) ==
    StatedRules[CHOOSE i \in ViolatedRules(p, os) : \A j \in ViolatedRules(p, os) : i <= j]

C24_SecurityOrder ==
    (Called /\ launch.path.isstr) =>
        IF ViolatedRules(launch.path, osname) = {}
        THEN /\ launch.secure
             /\ \A i \in 1 .. Len(StatedRules) :
                   launch.result.error_message.code # StatedRules[i]
        ELSE /\ ~launch.secure
             /\ ~launch.result.success
             /\ launch.result.error_message.code = FirstViolated(launch.path, osname)
             /\ launch.result.error_message.code = "invalid_char"
                   => \E i \in 1 .. Len(launch.path.toks) :
                         launch.path.toks[i] = launch.result.error_message.ch

C24_Witness ==
    /\ Called
    /\ launch.path = StrPath(<<".", ".", "/", "run254", ".", "exe">>)
    /\ PathLen(launch.path.toks) = 261
    /\ Cardinality(ViolatedRules(launch.path, osname)) = 3
    /\ launch.result.error_message.code = "too_long"

(* a path of exactly 260 characters is accepted *)
C24_Boundary ==
    /\ Called
    /\ launch.path = StrPath(<<"C", ":", BS, "run253", ".", "exe">>)
    /\ PathLen(launch.path.toks) = 260
    /\ launch.secure

(* C25: kill_application.  A kill_application call whose process scan      *)
(* works signals every matching process, returns true if and only if at    *)
(* least one terminate succeeded, and skips a process that raises          *)
(* no-such-process or access-denied; once it returned true and the         *)
(* signalled processes have exited, is_application_running on the same     *)
(* path returns false.                                                     *)
Matching(table, p, os) == {q \in Pids : table[q].running /\ Matches(table[q], p, os)}

Signalled(table, p, os) == {q \in Matching(table, p, os) : table[q].term = "ok"}

C25_KillApplication ==
    [][\A p \in QueryPaths :
          (KillApplication(p) /\ p.isstr /\ probe'.fault = "ok")
             => /\ (probe'.ret = "true") <=> (Signalled(procs, p, osname) # {})
                /\ \A q \in Signalled(procs, p, osname) : ~procs'[q].running
                /\ probe'.ret = "true"
                      => is_application_running(p, procs', osname, "ok").ret = "false"]_vars

(* C26: recovery attempt limit.  attempt_recovery invokes the registered   *)
(* handlers only while the counter of the error key is below the maximum   *)
(* of 3; at the maximum it returns false and invokes no handler; a handler *)
(* that returns true resets the counter to 0; reset_recovery_attempts of a *)
(* category removes the counters of that category; no counter exceeds the  *)
(* maximum.                                                                *)
Attempted == recov.op = "attempt_recovery"

(* the category of an error key: its text before the first colon *)
KeyCategory(k) ==
    LET colons == {i \in 1 .. Len(k) : k[i] = ":"}
    IN SubSeq(k, 1, (CHOOSE i \in colons : \A j \in colons : i <= j) - 1)

C26_RecoveryAttemptLimit ==
    /\ \A k \in DOMAIN recovery_attempts : recovery_attempts[k] <= 3
    /\ Attempted =>
          /\ recov.invoked > 0 => recov.before < 3
          /\ recov.before >= 3 =>
                (~recov.ret /\ recov.invoked = 0 /\ recovery_attempts[recov.key] = recov.before)
          /\ (recov.before < 3 /\ recov.handlers > 0) => recov.invoked > 0
          /\ recov.ret => (recov.invoked > 0 /\ recovery_attempts[recov.key] = 0)
          /\ (recov.before < 3 /\ ~recov.ret) =>
                (recov.invoked = recov.handlers
                    /\ recovery_attempts[recov.key] = recov.before + 1)
    /\ (recov.op = "reset_recovery_attempts" /\ recov.cat # <<>>) =>
          \A k \in DOMAIN recovery_attempts : KeyCategory(k) # recov.cat

C26_Witness ==
    /\ Attempted
    /\ recov.before = 3
    /\ recov.handlers > 0
    /\ recov.invoked = 0
    /\ ~recov.ret

(* reset_recovery_attempts of a category leaves the other counters alone   *)
(* and the next attempt on a key of that category invokes the handlers     *)
C26_ResetKeepsOthers ==
    [][\A cat \in Categories :
          ResetRecoveryAttempts(cat) =>
             /\ DOMAIN recovery_attempts' =
                   {k \in DOMAIN recovery_attempts : KeyCategory(k) # cat}
             /\ \A k \in DOMAIN recovery_attempts' :
                   recovery_attempts'[k] = recovery_attempts[k]]_vars

(* C27: a failed save leaves the live file intact.  Whenever save_config   *)
(* returns false or raises, for any reason, the live file holds after the  *)
(* call what it held before it.                                            *)
SameFile(f, g) == Exists(f) = Exists(g) /\ (Exists(f) => Content(f) = Content(g))

C27_FailedSaveKeepsLive ==
    [][\A arg \in SaveInputs, io \in IOs :
          (/\ SaveConfig(arg, io, MaxClock)
           /\ (res'.raised # "none" \/ ~res'.ret.b))
             => SameFile(live', live)]_vars

(* C28: backups hold only saved configurations.  In every state reached by *)
(* load_config, save_config, backup_config and reset_to_default from an    *)
(* empty backup directory, with the live file possibly corrupted from      *)
(* outside, every backup file holds well-formed JSON written by a          *)
(* successful save: a malformed live file is never copied into the         *)
(* backup directory.                                                       *)
C28_BackupsWellFormed ==
    \A n \in BackupFiles(backups) :
        /\ backups[n].kind = "object"
        /\ backups[n].meta # NoMeta

(* C29: rotation deletes by age, also after a restore.  In every sequence  *)
(* of save_config, backup_config and restore_from_backup calls, the        *)
(* backups a rotation deletes were all created earlier than every backup   *)
(* it keeps.  A backup file is named after the second of its creation.     *)
DeletedBackups == BackupFiles(backups) \ BackupFiles(backups')

C29_RotationDeletesOldest ==
    [][\A d \in DeletedBackups : \A k \in BackupFiles(backups') : d < k]_vars

(* C30: success means a started process, for both launch entry points.     *)
(* Every result with success = true that launch_application or             *)
(* launch_with_admin returns carries the id of a process that was          *)
(* spawned, and the path of the call passed the security validation,       *)
(* exists and is a valid executable.                                       *)
C30_SuccessMeansStarted ==
    (Called /\ launch.result.success) =>
        /\ Spawns(launch)
        /\ launch.result.process_id \in 1 .. MaxPid
        /\ \E r \in validate_security(launch.path, osname) : r.ok
        /\ launch.at.exists
        /\ is_valid_executable(launch.path, launch.at)

=============================================================================
